---- MODULE Spec2Model ----
(***************************************************************************)
(* A model of the gotify plugin multi-notifier (src/plugin.go): the plugin *)
(* facade (Enable, Disable, ValidateAndSetConfig), the session goroutines  *)
(* started by Enable (ReadMessages and its read loop), and the webhook     *)
(* dispatcher SendMessage with its body rendering.                         *)
(*                                                                         *)
(* Go strings that are searched or rewritten (bodies, titles, messages)    *)
(* are sequences of one-character strings; strings that are only compared  *)
(* (urls, methods, tokens) are TLA+ strings.                               *)
(***************************************************************************)
EXTENDS Integers, Sequences, FiniteSets, Bags, TLC

VARIABLES
    config,     \* p.config: NoConfig, or the Config last handed to ValidateAndSetConfig
    sess,       \* the bag of ReadMessages goroutines started by Enable, by state
    exited,     \* TRUE once log.Fatal has ended the process (os.Exit(1))
    nframes,    \* number of frames the peer has delivered so far, over all sessions
    hostCall,   \* history: the host's last Enable or Disable call and what it returned
    testConns,  \* connections TestSocket has dialled and that are still open
    fnIn,       \* the arguments of the function under test (SendSpec, RenderSpec)
    fnOut       \* its result, NoResult before the call

vars == <<config, sess, exited, nframes, hostCall, testConns, fnIn, fnOut>>

(***************************************************************************)
(* Bounds of the model.                                                    *)
(***************************************************************************)
MaxSessions == 2    \* ReadMessages goroutines Enable may start
MaxFrames   == 2    \* frames delivered by the peer, over all sessions
MaxTargets  == 2    \* longest webhook list handed to SendMessage in SendSpec
MaxFrags    == 3    \* fragments a body template is built from in RenderSpec

(***************************************************************************)
(* Strings.                                                                *)
(***************************************************************************)
EmptyStr   == <<>>
TitleVar   == <<"$", "t", "i", "t", "l", "e">>
MessageVar == <<"$", "m", "e", "s", "s", "a", "g", "e">>

HasPrefix(s, p) == Len(s) >= Len(p) /\ SubSeq(s, 1, Len(p)) = p

\* strings.Replace(s, old, new, -1) for a non-empty old: the leftmost
\* occurrences, not overlapping, each replaced; the text put in is not
\* searched again.
RECURSIVE Replace(_, _, _)
Replace(s, old, new) ==
    IF Len(s) < Len(old) THEN s
    ELSE IF HasPrefix(s, old)
         THEN new \o Replace(SubSeq(s, Len(old) + 1, Len(s)), old, new)
         ELSE <<Head(s)>> \o Replace(Tail(s), old, new)

\* The two Replace calls of SendMessage, in the code's order: first every
\* $title, then every $message of what the first call returned.
RenderBody(body, msg) ==
    Replace(Replace(body, TitleVar, msg.Title), MessageVar, msg.Message)

(***************************************************************************)
(* Webhooks and SendMessage.                                               *)
(***************************************************************************)
NilHeader     == [isNil |-> TRUE, kv |-> {}]
DefaultHeader == [isNil |-> FALSE, kv |-> {<<"Content-Type", "application/json">>}]
DefaultMethod == "POST"
DefaultBody   ==
    <<"{", "\"", "m", "s", "g", "\"", ":", "\"">> \o TitleVar \o <<"\n">>
        \o MessageVar \o <<"\"", "}">>

\* ApplyDefaults with GET, the method of http.NewRequest for "", in the place
\* of POST.
ApplyDefaultsGet(w) ==
    [w EXCEPT !.Method = IF w.Method = "" THEN "GET" ELSE w.Method,
              !.Header = IF w.Header.isNil THEN DefaultHeader ELSE w.Header,
              !.Body   = IF w.Body = EmptyStr THEN DefaultBody ELSE w.Body]

\* The three defaults SendMessage writes into the WebHook it was handed.
ApplyDefaults(w) ==
    [w EXCEPT !.Method = IF w.Method = "" THEN DefaultMethod ELSE w.Method,
              !.Header = IF w.Header.isNil THEN DefaultHeader ELSE w.Header,
              !.Body   = IF w.Body = EmptyStr THEN DefaultBody ELSE w.Body]

\* http.NewRequest fails on a method that is no token and on a url that
\* url.Parse rejects.
BadMethod == "BAD METHOD"
BadUrl    == "://bad"
NewRequestFails(method, url) == method = BadMethod \/ url = BadUrl

\* The header names of the model are in their canonical form, which
\* req.Header.Add keeps as it is.
\* SendMessage from webhook number i on.  doOk[i] says whether
\* http.DefaultClient.Do succeeds for webhook i.  handled lists the webhooks
\* the loop body ran for, requests the requests handed to Do.
RECURSIVE SendLoop(_, _, _, _, _, _)
SendLoop(msg, webhooks, doOk, i, handled, requests) ==
    IF i > Len(webhooks)
    THEN [webhooks |-> webhooks, handled |-> handled, requests |-> requests,
          err |-> "nil"]
    ELSE LET w    == ApplyDefaults(webhooks[i])
             ws   == [webhooks EXCEPT ![i] = w]
             req  == [target |-> i, Method |-> w.Method, Url |-> w.Url,
                      Header |-> w.Header, Body |-> RenderBody(w.Body, msg)]
         IN  IF NewRequestFails(w.Method, w.Url)
             THEN [webhooks |-> ws, handled |-> Append(handled, i),
                   requests |-> requests, err |-> "NewRequest"]
             ELSE IF ~doOk[i]
             THEN [webhooks |-> ws, handled |-> Append(handled, i),
                   requests |-> Append(requests, req), err |-> "Do"]
             ELSE SendLoop(msg, ws, doOk, i + 1, Append(handled, i),
                           Append(requests, req))

SendMessage(msg, webhooks, doOk) == SendLoop(msg, webhooks, doOk, 1, <<>>, <<>>)

(***************************************************************************)
(* Configuration.                                                          *)
(***************************************************************************)
NoConfig == [isNil |-> TRUE]

\* DefaultConfig()
DefaultConfig ==
    [isNil |-> FALSE, ClientToken |-> "CrMo3UaAQG1H37G",
     HostServer |-> "ws://localhost", WebHooks |-> <<>>]

HookUrl  == "http://h/hook"
BodyTmpl == <<"<">> \o TitleVar \o <<"|">> \o MessageVar \o <<">">>

\* A webhook with only its url given, and one with every field given.
HookBare == [Url |-> HookUrl, Method |-> "", Body |-> EmptyStr, Header |-> NilHeader]
HookFull ==
    [Url |-> "http://h/full", Method |-> "PUT", Body |-> BodyTmpl,
     Header |-> [isNil |-> FALSE, kv |-> {<<"X-Key", "k">>}]]

\* The configurations the host hands to ValidateAndSetConfig.
Configs ==
    { [DefaultConfig EXCEPT !.WebHooks = <<HookBare, HookFull>>],
      [DefaultConfig EXCEPT !.ClientToken = ""],
      [DefaultConfig EXCEPT !.HostServer = ""] }

\* p.config.HostServer + "/stream?token=" + p.config.ClientToken
ServerUrl(c) == <<c.HostServer, "/stream?token=", c.ClientToken>>

(***************************************************************************)
(* Frames and events.                                                      *)
(***************************************************************************)
\* plugin.Message{}: the zero value the read loop's msg starts from.
ZeroMessage == [Title |-> EmptyStr, Message |-> EmptyStr]

Disk == <<"D", "i", "s", "k">>
Full == <<"9", "0", "%">>
Cpu  == <<"C", "p", "u">>

\* The text frames the peer sends: one that is no JSON, one with both fields,
\* one with a title only.
Frames ==
    { [valid |-> FALSE, hasTitle |-> FALSE, title |-> EmptyStr,
       hasMessage |-> FALSE, message |-> EmptyStr],
      [valid |-> TRUE, hasTitle |-> TRUE, title |-> Disk,
       hasMessage |-> TRUE, message |-> Full],
      [valid |-> TRUE, hasTitle |-> TRUE, title |-> Cpu,
       hasMessage |-> FALSE, message |-> EmptyStr] }

\* json.Unmarshal(message, &msg) on a valid frame: the fields the frame has
\* are stored into msg, the others are left as they are.
Unmarshal(msg, f) ==
    [Title   |-> IF f.hasTitle THEN f.title ELSE msg.Title,
     Message |-> IF f.hasMessage THEN f.message ELSE msg.Message]

(***************************************************************************)
(* Sessions: one ReadMessages goroutine (the coordinator) and the read     *)
(* loop goroutine it starts.                                               *)
(***************************************************************************)
\* The urls of a webhook list, in its order.
Urls(webhooks) == [i \in 1..Len(webhooks) |-> webhooks[i].Url]

\* A goroutine started by `go p.ReadMessages(serverUrl)`, before it has run.
NewSession(url) ==
    [url       |-> url,
     targets   |-> Urls(config.WebHooks), \* history: the targets configured at Enable
     coord     |-> "start",     \* start, select, grace, returned, fatal
     reader    |-> "none",      \* none, read, dispatch, fatal
     conn      |-> "none",      \* none, open, closed
     interrupt |-> FALSE,       \* a signal waits in the channel for the select
     done      |-> FALSE,       \* the done channel is closed
     msg       |-> ZeroMessage, \* the msg variable the read loop decodes into
     badFrame  |-> FALSE,       \* history: a frame failed to decode
     ret       |-> "none",      \* none, nil, err: what ReadMessages returned
     err       |-> "none"]      \* the read loop's err: what SendMessage last returned

\* The plugin keeps no handle on the goroutines it starts: a session is known
\* by its state alone.
Sessions == BagToSet(sess)

\* sess with one goroutine moved from state s to state t.
Moved(s, t) == (sess (-) SetToBag({s})) (+) SetToBag({t})

\* The session states of the design, read off the goroutines.
Connected(s) == s.coord = "select"
Closing(s)   == s.coord = "grace"
Closed(s)    == s.coord = "returned"

NoHostCall ==
    [op |-> "none", host |-> "", token |-> "", dial |-> "none", ret |-> "nil",
     spawned |-> FALSE]

(***************************************************************************)
(* The plugin facade.                                                      *)
(***************************************************************************)
\* ValidateAndSetConfig(config): the config is stored, never checked.
ValidateAndSetConfig(c) ==
    /\ ~exited
    /\ config' = c
    /\ UNCHANGED <<sess, exited, nframes, hostCall, testConns, fnIn, fnOut>>

\* EnableError with the result of TestSocket dropped.
EnableErrorNoPreflight(c, dialOk) ==
    IF c.HostServer = "" THEN "please enter the correct web server"
    ELSE IF c.ClientToken = "" THEN "please add the client token first"
    ELSE "nil"

\* What Enable returns, given whether TestSocket's dial succeeds.
EnableError(c, dialOk) ==
    IF c.HostServer = "" THEN "please enter the correct web server"
    ELSE IF c.ClientToken = "" THEN "please add the client token first"
    ELSE IF ~dialOk
         THEN "web server url is not valid, either client_token or url is not valid"
         ELSE "nil"

\* Enable(): the checks, TestSocket, and on success `go p.ReadMessages`.
\* The host sets a config before it enables a plugin.  TestSocket dials only
\* when both checks passed; it drops the connection Dial returns without a
\* Close, so a dial that succeeded leaves one more connection open.
Enable ==
    /\ ~exited
    /\ config # NoConfig
    /\ BagCardinality(sess) < MaxSessions
    /\ \E dialOk \in BOOLEAN :
         LET ret     == EnableError(config, dialOk)
             dialled == config.HostServer # "" /\ config.ClientToken # ""
         IN  /\ sess' = IF ret = "nil"
                        THEN sess (+) SetToBag({NewSession(ServerUrl(config))})
                        ELSE sess
             /\ hostCall' = [op |-> "Enable", host |-> config.HostServer,
                             token |-> config.ClientToken,
                             dial |-> IF ~dialled THEN "none"
                                      ELSE IF dialOk THEN "ok" ELSE "failed",
                             ret |-> ret, spawned |-> sess' # sess]
             /\ testConns' = IF dialled /\ dialOk THEN testConns + 1 ELSE testConns
    /\ UNCHANGED <<config, exited, nframes, fnIn, fnOut>>

\* Disable with the plugin's config dropped.
DisableForgetsConfig ==
    /\ ~exited
    /\ hostCall' = [op |-> "Disable", host |-> "", token |-> "", dial |-> "none",
                    ret |-> "nil", spawned |-> FALSE]
    /\ config' = NoConfig
    /\ UNCHANGED <<sess, exited, nframes, testConns, fnIn, fnOut>>

\* Disable(): a log line, nothing else.
Disable ==
    /\ ~exited
    /\ hostCall' = [op |-> "Disable", host |-> "", token |-> "", dial |-> "none",
                    ret |-> "nil", spawned |-> FALSE]
    /\ UNCHANGED <<config, sess, exited, nframes, testConns, fnIn, fnOut>>

(***************************************************************************)
(* The goroutines of a session.                                            *)
(***************************************************************************)
\* log.Fatal in a goroutine of session s: the line is logged and os.Exit(1)
\* ends the process; no deferred call runs, the statement after it is never
\* reached.
Fatal(s, who) ==
    /\ exited' = TRUE
    /\ sess' = IF who = "coord" THEN Moved(s, [s EXCEPT !.coord = "fatal"])
                                ELSE Moved(s, [s EXCEPT !.reader = "fatal"])

\* ReadMessages returns r: the deferred ticker.Stop() and conn.Close() run.
\* Nothing receives from the interrupt channel any more.
Return(s, r) ==
    [s EXCEPT !.coord = "returned", !.ret = r, !.conn = "closed",
              !.interrupt = FALSE]

\* ReadMessages up to the start of the read loop: signal.Notify, the dial of
\* the session's connection, `go func()`.
CoordStart(s) ==
    /\ ~exited
    /\ s.coord = "start"
    /\ \E dialOk \in BOOLEAN :
         IF dialOk
         THEN /\ sess' = Moved(s, [s EXCEPT !.coord = "select", !.conn = "open",
                                            !.reader = "read"])
              /\ UNCHANGED exited
         ELSE Fatal(s, "coord")
    /\ UNCHANGED <<config, nframes, hostCall, testConns, fnIn, fnOut>>

\* The cases of the coordinator's select that can be taken: the ticker fires
\* every second, done and interrupt when they hold something.
SelectReady(s) ==
    {"tick"} \cup (IF s.done THEN {"done"} ELSE {})
             \cup (IF s.interrupt THEN {"interrupt"} ELSE {})

\* One round of the coordinator's `for { select { ... } }`.  writeOk says
\* whether conn.WriteMessage succeeds.
CoordSelect(s) ==
    /\ ~exited
    /\ s.coord = "select"
    /\ \E ev \in SelectReady(s), writeOk \in BOOLEAN :
         sess' = Moved(s,
           CASE ev = "done" -> Return(s, "nil")
             [] ev = "tick" -> IF writeOk THEN s ELSE Return(s, "err")
             [] ev = "interrupt" ->
                  IF writeOk
                  THEN [s EXCEPT !.interrupt = FALSE, !.coord = "grace"]
                  ELSE Return(s, "err"))
    /\ UNCHANGED <<config, exited, nframes, hostCall, testConns, fnIn, fnOut>>

\* After the close frame: `select { case <-done: case <-time.After(time.Second): }`
\* and `return err` with the nil err of the close frame's write.  The timer
\* fires after a second whatever the peer does.
GraceReady(s) == {"timeout"} \cup (IF s.done THEN {"done"} ELSE {})

CoordGrace(s) ==
    /\ ~exited
    /\ s.coord = "grace"
    /\ \E ev \in GraceReady(s) : sess' = Moved(s, Return(s, "nil"))
    /\ UNCHANGED <<config, exited, nframes, hostCall, testConns, fnIn, fnOut>>

\* A session with the signal in its channel.  The channel is registered by
\* signal.Notify when ReadMessages starts and is received from in the main
\* select only: a signal stored while the coordinator is past that select
\* is never looked at, and is left out.
Signalled(s) == IF s.coord = "select" THEN [s EXCEPT !.interrupt = TRUE] ELSE s

\* SIGINT reaches the process: every channel registered by signal.Notify gets
\* the signal unless its buffer of one is full.
Interrupt ==
    /\ ~exited
    /\ \E s \in Sessions : s.coord = "select" /\ ~s.interrupt
    /\ sess' = BagOfAll(Signalled, sess)
    /\ UNCHANGED <<config, exited, nframes, hostCall, testConns, fnIn, fnOut>>

\* DecodeError with the frame dropped and the loop going on.
DecodeErrorDropped(s) ==
    /\ UNCHANGED exited
    /\ sess' = Moved(s, [s EXCEPT !.badFrame = TRUE])

\* The read loop on a frame that json.Unmarshal rejects: log.Fatal.
DecodeError(s) ==
    /\ exited' = TRUE
    /\ sess' = Moved(s, [s EXCEPT !.reader = "fatal", !.badFrame = TRUE])

\* ReadFrame with the next frame read while SendMessage still runs.
ReadFrameAhead(s) ==
    /\ ~exited
    /\ s.reader \in {"read", "dispatch"}
    /\ s.conn = "open"
    /\ nframes < MaxFrames
    /\ nframes' = nframes + 1
    /\ \E f \in Frames :
         IF ~f.valid
         THEN DecodeError(s)
         ELSE /\ sess' = Moved(s, [s EXCEPT !.msg = Unmarshal(s.msg, f),
                                            !.reader = "dispatch"])
              /\ UNCHANGED exited
    /\ UNCHANGED <<config, hostCall, testConns, fnIn, fnOut>>

\* conn.ReadMessage returns frame f, and json.Unmarshal decodes it into msg.
ReadFrame(s) ==
    /\ ~exited
    /\ s.reader = "read"
    /\ s.conn = "open"
    /\ nframes < MaxFrames
    /\ nframes' = nframes + 1
    /\ \E f \in Frames :
         IF ~f.valid
         THEN DecodeError(s)
         ELSE /\ sess' = Moved(s, [s EXCEPT !.msg = Unmarshal(s.msg, f),
                                            !.reader = "dispatch"])
              /\ UNCHANGED exited
    /\ UNCHANGED <<config, hostCall, testConns, fnIn, fnOut>>

\* conn.ReadMessage returns an error: the peer closed or answered the close
\* frame, the network failed, or conn.Close() ran in the coordinator.
ReadError(s) ==
    /\ ~exited
    /\ s.reader = "read"
    /\ s.conn \in {"open", "closed"}
    /\ Fatal(s, "reader")
    /\ UNCHANGED <<config, nframes, hostCall, testConns, fnIn, fnOut>>

\* AfterSend with the read loop returning on an error of SendMessage, the
\* deferred close(done) run.
AfterSendAborts(s, r) ==
    [s EXCEPT !.reader = IF r.err = "nil" THEN "read" ELSE "returned",
              !.done = r.err # "nil",
              !.err = r.err]

\* The read loop after SendMessage returned r: an error is logged, and the
\* loop goes on to the next ReadMessage.
AfterSend(s, r) == [s EXCEPT !.reader = "read", !.err = r.err]

\* err = p.SendMessage(msg, p.config.WebHooks), with the webhooks of the
\* config p.config points to at that moment; SendMessage writes its defaults
\* into them.
Dispatch(s) ==
    /\ ~exited
    /\ s.reader = "dispatch"
    /\ \E doOk \in [1..Len(config.WebHooks) -> BOOLEAN] :
         LET r == SendMessage(s.msg, config.WebHooks, doOk)
         IN  /\ sess' = Moved(s, AfterSend(s, r))
             /\ config' = [config EXCEPT !.WebHooks = r.webhooks]
    /\ UNCHANGED <<exited, nframes, hostCall, testConns, fnIn, fnOut>>

(***************************************************************************)
(* The plugin in its host.                                                 *)
(***************************************************************************)
NoCall   == [op |-> "none"]
NoResult == [op |-> "none"]

\* NewGotifyPluginInstance: &MultiNotifierPlugin{}
Init ==
    /\ config = NoConfig
    /\ sess = EmptyBag
    /\ exited = FALSE
    /\ nframes = 0
    /\ hostCall = NoHostCall
    /\ testConns = 0
    /\ fnIn = NoCall
    /\ fnOut = NoResult

Next ==
    \/ \E c \in Configs : ValidateAndSetConfig(c)
    \/ Enable
    \/ Disable
    \/ Interrupt
    \/ \E s \in Sessions : CoordStart(s)
    \/ \E s \in Sessions : CoordSelect(s)
    \/ \E s \in Sessions : CoordGrace(s)
    \/ \E s \in Sessions : ReadFrame(s)
    \/ \E s \in Sessions : ReadError(s)
    \/ \E s \in Sessions : Dispatch(s)

Spec == Init /\ [][Next]_vars

(***************************************************************************)
(* SendMessage on its own: every message and webhook list of the sets      *)
(* below, with every outcome of the HTTP calls.                            *)
(***************************************************************************)
Events ==
    { [Title |-> Disk, Message |-> Full],
      [Title |-> MessageVar, Message |-> Full] }

Targets ==
    [Url    : {HookUrl, BadUrl},
     Method : {"", "PUT", BadMethod},
     Body   : {EmptyStr, BodyTmpl},
     Header : {NilHeader, [isNil |-> FALSE, kv |-> {<<"X-Key", "k">>}]}]

RECURSIVE ListsUpTo(_, _)
ListsUpTo(S, n) ==
    IF n = 0 THEN {<<>>}
    ELSE LET shorter == ListsUpTo(S, n - 1)
         IN  shorter \cup {Append(l, x) : l \in shorter, x \in S}

SendInit ==
    /\ config = NoConfig
    /\ sess = EmptyBag
    /\ exited = FALSE
    /\ nframes = 0
    /\ hostCall = NoHostCall
    /\ testConns = 0
    /\ fnOut = NoResult
    /\ \E msg \in Events, webhooks \in ListsUpTo(Targets, MaxTargets) :
         \E doOk \in [1..Len(webhooks) -> BOOLEAN] :
           fnIn = [op |-> "SendMessage", msg |-> msg, webhooks |-> webhooks,
                   doOk |-> doOk]

SendCall ==
    /\ fnIn.op = "SendMessage"
    /\ fnOut = NoResult
    /\ fnOut' = [op |-> "SendMessage",
                 res |-> SendMessage(fnIn.msg, fnIn.webhooks, fnIn.doOk)]
    /\ UNCHANGED <<config, sess, exited, nframes, hostCall, testConns, fnIn>>

SendSpec == SendInit /\ [][SendCall]_vars

(***************************************************************************)
(* The rendering of a body on its own: templates built from the fragments  *)
(* below, events whose fields may hold placeholder text.                   *)
(***************************************************************************)
Fragments ==
    { TitleVar, MessageVar, <<"a">>, <<"$", "m", "e", "s", "s">>, <<"a", "g", "e">> }

RECURSIVE Templates(_)
Templates(n) ==
    IF n = 0 THEN {EmptyStr}
    ELSE LET shorter == Templates(n - 1)
         IN  shorter \cup {b \o f : b \in shorter, f \in Fragments}

RenderEvents ==
    [Title   : {EmptyStr, Disk, MessageVar, TitleVar},
     Message : {EmptyStr, Full, MessageVar, TitleVar}]

RenderInit ==
    /\ config = NoConfig
    /\ sess = EmptyBag
    /\ exited = FALSE
    /\ nframes = 0
    /\ hostCall = NoHostCall
    /\ testConns = 0
    /\ fnOut = NoResult
    /\ \E body \in Templates(MaxFrags), msg \in RenderEvents :
         fnIn = [op |-> "RenderBody", body |-> body, msg |-> msg]

RenderCall ==
    /\ fnIn.op = "RenderBody"
    /\ fnOut = NoResult
    /\ fnOut' = [op |-> "RenderBody", body |-> RenderBody(fnIn.body, fnIn.msg)]
    /\ UNCHANGED <<config, sess, exited, nframes, hostCall, testConns, fnIn>>

RenderSpec == RenderInit /\ [][RenderCall]_vars

(***************************************************************************)
(* The claims.                                                             *)
(***************************************************************************)

\* C1: one call of SendMessage on N targets runs the loop body for every
\* target, in list order, whatever attempt fails.
C1_OneAttemptPerTarget ==
    fnOut.op = "SendMessage" =>
        fnOut.res.handled = [i \in 1..Len(fnIn.webhooks) |-> i]

\* C2: an Enable call made with an empty server address, an empty token or
\* a failing TestSocket returns an error and starts no goroutine.
C2_EnableFailsWithoutSession ==
    (/\ hostCall.op = "Enable"
     /\ (hostCall.host = "" \/ hostCall.token = "" \/ hostCall.dial = "failed"))
        => (hostCall.ret # "nil" /\ ~hostCall.spawned)

C2_Witness ==
    /\ hostCall.op = "Enable"
    /\ hostCall.dial = "failed"
    /\ hostCall.ret # "nil"
    /\ BagCardinality(sess) = 1

\* C3: at most one session is live (Connected or Closing) at any time.
C3_AtMostOneSession ==
    \A s \in Sessions :
        (Connected(s) \/ Closing(s)) =>
            /\ CopiesIn(s, sess) = 1
            /\ \A t \in Sessions : (Connected(t) \/ Closing(t)) => t = s

\* C4: while Disable is the host's last call, no session takes up a newly
\* received frame for dispatch.
C4_DisableStopsDispatch ==
    [][(hostCall.op = "Disable" /\ hostCall' = hostCall)
          => \A s \in Sessions, t \in BagToSet(sess') :
               (sess' = Moved(s, t) /\ t.reader = "dispatch")
                  => s.reader = "dispatch"]_vars

\* C5: a session that has sent its close frame after an interrupt can still
\* take the step to Closed: the wait for done or the one-second timer ends
\* and ReadMessages returns.
C5_InterruptReachesClosed ==
    \A s \in Sessions : Closing(s) => ENABLED CoordGrace(s)

\* C6: once a frame has failed to decode in a session, the session is over
\* and its read loop stands at its log.Fatal for good: it is not in
\* SendMessage for that frame and takes up no later frame.
C6_DecodeErrorEndsDispatch ==
    \A s \in Sessions :
        s.badFrame =>
            /\ s.reader = "fatal"
            /\ exited
            /\ ~ENABLED (ReadFrame(s) \/ Dispatch(s))

\* A frame fails to decode in a session that has dispatched a frame before.
C6_Witness ==
    \E s \in Sessions : s.badFrame /\ s.err # "none"

\* C7: when SendMessage returns an error the read loop goes back to its
\* ReadMessage, with the coordinator, the connection and the process as
\* they were.
C7_DispatchErrorContained ==
    [][\A s \in Sessions, t \in BagToSet(sess') :
          (/\ sess' = Moved(s, t)
           /\ s.reader = "dispatch"
           /\ t.reader # "dispatch"
           /\ t.err # "nil")
             => (/\ t.reader = "read"
                 /\ ~t.done
                 /\ t.coord = s.coord
                 /\ t.conn = s.conn
                 /\ ~exited')]_vars

\* The frame after a failed dispatch is decoded and about to be dispatched.
C7_Witness ==
    \E s \in Sessions :
        /\ Connected(s)
        /\ s.err = "Do"
        /\ s.reader = "dispatch"

\* C8: no goroutine of a session ends the host process.
C8_ProcessSurvives == ~exited

\* The template with every occurrence of the two placeholders replaced, in
\* one pass from left to right over the template.
RECURSIVE Substitute(_, _)
Substitute(body, msg) ==
    IF body = EmptyStr THEN EmptyStr
    ELSE IF HasPrefix(body, TitleVar)
         THEN msg.Title \o Substitute(SubSeq(body, Len(TitleVar) + 1, Len(body)), msg)
    ELSE IF HasPrefix(body, MessageVar)
         THEN msg.Message \o Substitute(SubSeq(body, Len(MessageVar) + 1, Len(body)), msg)
    ELSE <<Head(body)>> \o Substitute(Tail(body), msg)

\* C9: the rendered body is the template with every occurrence of $title
\* replaced by the title and every occurrence of $message by the message.
C9_EveryOccurrenceReplaced ==
    fnOut.op = "RenderBody" => fnOut.body = Substitute(fnIn.body, fnIn.msg)

\* s holds sub somewhere.
RECURSIVE Contains(_, _)
Contains(s, sub) ==
    IF Len(s) < Len(sub) THEN FALSE
    ELSE HasPrefix(s, sub) \/ Contains(Tail(s), sub)

\* C10: a title or message that holds placeholder text is put into the body
\* as it is: where the template names it, the rendered body contains it.
C10_ValuesNotSubstituted ==
    fnOut.op = "RenderBody" =>
        /\ (Contains(fnIn.msg.Title, MessageVar) /\ Contains(fnIn.body, TitleVar))
              => Contains(fnOut.body, fnIn.msg.Title)
        /\ (Contains(fnIn.msg.Message, TitleVar) /\ Contains(fnIn.body, MessageVar))
              => Contains(fnOut.body, fnIn.msg.Message)

\* C11: every request handed to the HTTP client has the url of its target as
\* given; the method, the headers and the body template of the target where
\* they are given; and POST, the one header Content-Type: application/json
\* and the body template {"msg":"$title\n$message"} where they are not.
C11_RequestUsesTargetOrDefaults ==
    fnOut.op = "SendMessage" =>
        \A k \in 1..Len(fnOut.res.requests) :
            LET req == fnOut.res.requests[k]
                w   == fnIn.webhooks[req.target]
            IN  /\ req.Url = w.Url
                /\ req.Method = (IF w.Method = "" THEN "POST" ELSE w.Method)
                /\ req.Header.kv =
                      (IF w.Header.isNil
                       THEN {<<"Content-Type", "application/json">>}
                       ELSE w.Header.kv)
                /\ req.Body =
                      RenderBody(IF w.Body = EmptyStr
                                 THEN <<"{", "\"", "m", "s", "g", "\"", ":", "\"",
                                        "$", "t", "i", "t", "l", "e", "\n",
                                        "$", "m", "e", "s", "s", "a", "g", "e",
                                        "\"", "}">>
                                 ELSE w.Body,
                                 fnIn.msg)

\* One call sends a request for a target with nothing but its url and a
\* request for a target with every field given.
C11_Witness ==
    /\ fnOut.op = "SendMessage"
    /\ Len(fnOut.res.requests) = 2
    /\ fnIn.webhooks[1] = HookBare
    /\ fnIn.webhooks[2].Method = "PUT"
    /\ fnIn.webhooks[2].Body = BodyTmpl
    /\ ~fnIn.webhooks[2].Header.isNil

\* C12: a live session keeps the connection url it was started with, and
\* every SendMessage call of its read loop goes to the targets that were
\* configured when Enable started it, whatever ValidateAndSetConfig has
\* stored since.
C12_NoHotReload ==
    [][\A s \in Sessions, t \in BagToSet(sess') :
          sess' = Moved(s, t) =>
              /\ t.url = s.url
              /\ (s.reader = "dispatch" /\ t.reader = "read")
                    => Urls(config.WebHooks) = s.targets]_vars

\* C13: when Enable has returned nil, the connection of every session it
\* started has been established: no session is still before its dial or has
\* failed it.
C13_EnableSuccessMeansConnected ==
    (hostCall.op = "Enable" /\ hostCall.ret = "nil")
        => \A s \in Sessions : s.conn # "none"

\* C14: a Disable call returns nil and leaves the config, the sessions, the
\* process and the connections as they are, in whatever state the sessions
\* are (none started, or returned, among them); what it leaves behind does
\* not depend on the calls before it, so a second call changes nothing.
C14_DisableIdempotent ==
    [][(hostCall' # hostCall /\ hostCall'.op = "Disable")
          => /\ hostCall' = [NoHostCall EXCEPT !.op = "Disable"]
             /\ config' = config
             /\ sess' = sess
             /\ exited' = exited
             /\ testConns' = testConns]_vars

\* Disable was called on a configured plugin that never started a session.
C14_Witness ==
    /\ hostCall.op = "Disable"
    /\ config # NoConfig
    /\ sess = EmptyBag

\* C15: in one session a frame is read and decoded only while the read loop
\* is not in SendMessage; a dispatch starts only with the decoding of a frame
\* and runs on that frame's msg, and until it has returned no frame is read.
C15_FramesInOrder ==
    [][\A s \in Sessions, t \in BagToSet(sess') :
          (sess' = Moved(s, t) /\ s # t) =>
              /\ (t.msg # s.msg)
                    => (s.reader = "read" /\ t.reader = "dispatch"
                        /\ nframes' = nframes + 1)
              /\ (t.reader = "dispatch" /\ s.reader # "dispatch")
                    => nframes' = nframes + 1
              /\ (s.reader = "dispatch")
                    => (t.msg = s.msg /\ nframes' = nframes)]_vars

\* A session has dispatched one frame and has decoded the next.
C15_Witness ==
    \E s \in Sessions :
        /\ s.reader = "dispatch"
        /\ s.err = "nil"
        /\ nframes = MaxFrames

\* C16: when the heartbeat's write fails in a Connected session with no
\* signal waiting, ReadMessages returns the error with the connection
\* closed, and the error is what the plugin hands to its host.
C16_HeartbeatErrorPropagates ==
    [][\A s \in Sessions, t \in BagToSet(sess') :
          (/\ sess' = Moved(s, t)
           /\ Connected(s)
           /\ ~s.interrupt
           /\ t.ret = "err")
             => (/\ Closed(t)
                 /\ t.conn = "closed"
                 /\ hostCall'.ret = t.ret)]_vars

\* C17: SendMessage returns with the webhooks it was handed as they were.
C17_TargetsUnchanged ==
    fnOut.op = "SendMessage" => fnOut.res.webhooks = fnIn.webhooks

\* C18: once ReadMessages has returned, the connection is closed and the
\* read loop takes up no frame and makes no SendMessage call.
C18_ClosedIsQuiet ==
    \A s \in Sessions :
        Closed(s) =>
            /\ s.conn = "closed"
            /\ ~ENABLED ReadFrame(s)
            /\ ~ENABLED Dispatch(s)

\* C19: the msg a session is about to dispatch is what its last frame
\* decodes to on its own, from the zero Message.
C19_EventFromFrameAlone ==
    \A s \in Sessions :
        s.reader = "dispatch" =>
            \E f \in Frames : f.valid /\ s.msg = Unmarshal(ZeroMessage, f)

\* C20: no connection dialled by TestSocket is open once Enable has
\* returned.
C20_PreflightClosed == testConns = 0

====
